---- MODULE Spec2Model ----
(***************************************************************************)
(* The HDB resale-price notebook (src/HDB.ipynb) as a state machine.       *)
(*                                                                         *)
(* The notebook is a straight-line program: its code cells run in order on *)
(* the shared tables df and myflat and on the encoders oe and ohe, and a   *)
(* cell that raises stops the run.  Each cell that changes state is one    *)
(* action; the statements of a cell run in order, so a cell that raises    *)
(* keeps the effect of the statements before the one that raised.          *)
(*                                                                         *)
(* Texts that the code takes apart (month, remaining_lease) are sequences  *)
(* of one-character strings; category values and column names are strings. *)
(***************************************************************************)
EXTENDS Integers, Sequences, FiniteSets, TLC

VARIABLES
    csv,        \* contents of data/resale-flat-prices-...csv: a sequence of raw rows
    myflat_csv, \* contents of data/myflat.csv: [columns, row]
    pc,         \* the cell the run is at; "done" after the last, "error" after a raise
    err,        \* the exception that stopped the run, NoError while none
    df,         \* the training table, mutated in place
    oe,         \* the OrdinalEncoder
    ohe,        \* the OneHotEncoder
    X_train,    \* the training split of the feature table
    X_test,     \* the held-out split
    lr,         \* the LinearRegression and the tables it was asked to predict on
    myflat      \* the single prediction table, mutated in place

vars == <<csv, myflat_csv, pc, err, df, oe, ohe, X_train, X_test, lr, myflat>>

-----------------------------------------------------------------------------
(* Bounds of the model.                                                    *)

\* most rows of the training file
MaxRows == 2
\* most whitespace-separated tokens of a remaining_lease text
MaxTokens == 5
\* most "-"-separated parts of a month text
MaxParts == 3

-----------------------------------------------------------------------------
(* Python strings and str methods.                                         *)

Digits == {"0", "1", "2", "3", "4", "5", "6", "7", "8", "9"}

\* the characters str.split() and int() treat as whitespace
Whitespace == {" ", "\t"}

DigitVal(c) ==
    CASE c = "0" -> 0 [] c = "1" -> 1 [] c = "2" -> 2 [] c = "3" -> 3
      [] c = "4" -> 4 [] c = "5" -> 5 [] c = "6" -> 6 [] c = "7" -> 7
      [] c = "8" -> 8 [] c = "9" -> 9

RECURSIVE DigitsVal(_)
DigitsVal(s) ==
    IF s = <<>> THEN 0
    ELSE 10 * DigitsVal(SubSeq(s, 1, Len(s) - 1)) + DigitVal(s[Len(s)])

RECURSIVE Pieces(_, _)
\* s cut at every character of D, empty pieces kept
Pieces(s, D) ==
    IF \E i \in 1..Len(s) : s[i] \in D
    THEN LET i == CHOOSE k \in 1..Len(s) :
                      /\ s[k] \in D
                      /\ \A j \in 1..(k - 1) : s[j] \notin D
         IN  <<SubSeq(s, 1, i - 1)>> \o Pieces(SubSeq(s, i + 1, Len(s)), D)
    ELSE <<s>>

\* x.split(sep): cut at every sep, empty strings kept
split_sep(x, sep) == Pieces(x, {sep})

\* x.split(): cut at runs of whitespace, no empty strings
split_ws(x) == SelectSeq(Pieces(x, Whitespace), LAMBDA p : p # <<>>)

RECURSIVE strip(_)
\* x.strip()
strip(x) ==
    IF x # <<>> /\ x[1] \in Whitespace THEN strip(Tail(x))
    ELSE IF x # <<>> /\ x[Len(x)] \in Whitespace THEN strip(SubSeq(x, 1, Len(x) - 1))
    ELSE x

\* the outcome of a call: a value, or the exception class it raised
Raise(exc) == [ok |-> FALSE, val |-> 0, exc |-> exc]
Value(v) == [ok |-> TRUE, val |-> v, exc |-> ""]

\* int(x) on a string of the model's alphabet: surrounding whitespace is
\* ignored, what remains must be one or more decimal digits (ValueError otherwise)
int(x) ==
    LET t == strip(x)
    IN  IF t # <<>> /\ \A i \in 1..Len(t) : t[i] \in Digits
        THEN Value(DigitsVal(t))
        ELSE Raise("ValueError")

-----------------------------------------------------------------------------
(* The parsing lambdas.                                                    *)

\* lambda x: int(x.split()[0])              (cells 17 and 44)
years_remaining(x) ==
    LET t == split_ws(x)
    IN  IF Len(t) = 0 THEN Raise("IndexError") ELSE int(t[1])

\* (mutant) the months read at a fixed place: int(x.split()[2])
months_remaining_third(x) ==
    LET t == split_ws(x)
    IN  IF Len(t) < 3 THEN Raise("IndexError") ELSE int(t[3])

\* lambda x: int(x.split(" ")[-2])          (cells 17 and 44)
months_remaining(x) ==
    LET p == split_sep(x, " ")
    IN  IF Len(p) < 2 THEN Raise("IndexError") ELSE int(p[Len(p) - 1])

\* lambda x: int(x.split("-")[0])           (cell 43)
sale_year(x) == int(split_sep(x, "-")[1])

\* lambda x: int(x.split("-")[-1])          (cell 43)
sale_month(x) ==
    LET p == split_sep(x, "-")
    IN  int(p[Len(p)])

\* pd.to_datetime(x, format="%Y-%m"), then .dt.year and .dt.month (cell 15):
\* the whole text must be four digits, "-", and a month 1..12 written with
\* one or two digits
to_datetime(x) ==
    LET n == Len(x)
        m == SubSeq(x, 6, n)
        monthOk ==
            \/ n = 7 /\ m[1] = "1" /\ m[2] \in {"0", "1", "2"}
            \/ n = 7 /\ m[1] = "0" /\ m[2] \in Digits \ {"0"}
            \/ n = 6 /\ m[1] \in Digits \ {"0"}
    IN  IF /\ n \in {6, 7}
           /\ \A i \in 1..4 : x[i] \in Digits
           /\ x[5] = "-"
           /\ monthOk
        THEN [ok |-> TRUE, year |-> DigitsVal(SubSeq(x, 1, 4)), month |-> DigitsVal(m),
              exc |-> ""]
        ELSE [ok |-> FALSE, year |-> 0, month |-> 0, exc |-> "ValueError"]

-----------------------------------------------------------------------------
(* pandas tables: an ordered list of column names and a sequence of rows,  *)
(* each row a function from the column names to values.                    *)

ColSet(columns) == {columns[i] : i \in DOMAIN columns}

NoTable == [columns |-> <<>>, rows |-> <<>>]

\* t[c] (a Series): the values of column c, by row
Column(t, c) == [r \in DOMAIN t.rows |-> t.rows[r][c]]

\* t[c] = vals: a new column goes last, an existing one is overwritten in place
setitem(t, c, vals) ==
    [columns |-> IF c \in ColSet(t.columns) THEN t.columns ELSE Append(t.columns, c),
     rows    |-> [r \in DOMAIN t.rows |->
                    [k \in ColSet(t.columns) \cup {c} |->
                        IF k = c THEN vals[r] ELSE t.rows[r][k]]]]

\* t.drop(labels, axis=1): KeyError unless every label is a column
CanDrop(t, labels) == labels \subseteq ColSet(t.columns)

drop(t, labels) ==
    [columns |-> SelectSeq(t.columns, LAMBDA c : c \notin labels),
     rows    |-> [r \in DOMAIN t.rows |->
                    [k \in ColSet(t.columns) \ labels |-> t.rows[r][k]]]]

\* t.join(other) on the shared RangeIndex: ValueError when column names overlap
CanJoin(t, other) == ColSet(t.columns) \cap ColSet(other.columns) = {}

join(t, other) ==
    [columns |-> t.columns \o other.columns,
     rows    |-> [r \in DOMAIN t.rows |->
                    [k \in ColSet(t.columns) \cup ColSet(other.columns) |->
                        IF k \in ColSet(t.columns) THEN t.rows[r][k]
                        ELSE other.rows[r][k]]]]

\* t[columns]: KeyError unless every name is a column; the result has exactly
\* the named columns in the order named
CanSelect(t, columns) == ColSet(columns) \subseteq ColSet(t.columns)

\* (mutant) the selection checks the names and leaves the table as assembled
getitem_as_assembled(t, columns) == t

getitem(t, columns) ==
    [columns |-> columns,
     rows    |-> [r \in DOMAIN t.rows |->
                    [k \in ColSet(columns) |-> t.rows[r][k]]]]

\* series.apply(f): f on every value; an exception in any call ends the apply
apply(series, f(_)) == [r \in DOMAIN series |-> f(series[r])]

AllOk(results) == \A r \in DOMAIN results : results[r].ok

Vals(results) == [r \in DOMAIN results |-> results[r].val]

\* the exception of the first call that raised
FirstRaised(results) ==
    results[CHOOSE r \in DOMAIN results :
                /\ ~results[r].ok
                /\ \A q \in DOMAIN results : q < r => results[q].ok].exc

-----------------------------------------------------------------------------
(* The encoders (sklearn.preprocessing).                                   *)

storey_cat ==
    << "01 TO 03", "04 TO 06", "07 TO 09", "10 TO 12", "13 TO 15", "16 TO 18",
       "19 TO 21", "22 TO 24", "25 TO 27", "28 TO 30", "31 TO 33", "34 TO 36",
       "37 TO 39", "40 TO 42", "43 TO 45", "46 TO 48", "49 TO 51" >>

ohe_features == <<"town", "flat_type", "flat_model">>

\* the category values of the model, in the order Python compares strings
LexOrder ==
    << "3 ROOM", "4 ROOM", "5 ROOM", "ANG MO KIO", "BEDOK", "Improved",
       "Model A", "New Generation", "YISHUN" >>

\* (mutant) pd.unique: the distinct values in the order they first appear
np_unique_first_seen(values) ==
    LET S == { values[r] : r \in DOMAIN values }
        first(v) == CHOOSE r \in DOMAIN values :
                        values[r] = v /\ \A q \in 1..(r - 1) : values[q] # v
    IN  CHOOSE q \in [1..Cardinality(S) -> S] :
            \A i, j \in 1..Cardinality(S) : i < j => first(q[i]) < first(q[j])

\* np.unique of a column of strings: its distinct values, sorted
np_unique(values) ==
    SelectSeq(LexOrder, LAMBDA v : \E r \in DOMAIN values : values[r] = v)

\* "x" + str(i) + "_" + str(cat), i counted from 0 (OneHotEncoder.get_feature_names
\* without input_features)
FeatureName(i, cat) ==
    CASE i = 1 /\ cat = "ANG MO KIO"     -> "x0_ANG MO KIO"
      [] i = 1 /\ cat = "BEDOK"          -> "x0_BEDOK"
      [] i = 1 /\ cat = "YISHUN"         -> "x0_YISHUN"
      [] i = 2 /\ cat = "3 ROOM"         -> "x1_3 ROOM"
      [] i = 2 /\ cat = "4 ROOM"         -> "x1_4 ROOM"
      [] i = 2 /\ cat = "5 ROOM"         -> "x1_5 ROOM"
      [] i = 3 /\ cat = "Improved"       -> "x2_Improved"
      [] i = 3 /\ cat = "Model A"        -> "x2_Model A"
      [] i = 3 /\ cat = "New Generation" -> "x2_New Generation"

RECURSIVE Flatten(_)
Flatten(ss) == IF ss = <<>> THEN <<>> ELSE Head(ss) \o Flatten(Tail(ss))

\* position of v in the sequence cats, counted from 0
IndexOf(cats, v) == (CHOOSE i \in DOMAIN cats : cats[i] = v) - 1

Unfitted == [fitted |-> FALSE, categories_ |-> <<>>]

\* _BaseEncoder._fit with categories=[storey_cat], handle_unknown="error":
\* categories_ is reset to [], then the given list is appended unless the
\* column holds a value outside it (ValueError, categories_ left [])
\* (mutant) categories="auto": the list is learned from the column
oe_fit_auto(values) ==
    [fitted |-> TRUE,
     categories_ |-> <<SelectSeq(storey_cat,
                                 LAMBDA v : \E r \in DOMAIN values : values[r] = v)>>]

oe_fit(values) ==
    IF \A r \in DOMAIN values : values[r] \in ColSet(storey_cat)
    THEN [fitted |-> TRUE, categories_ |-> <<storey_cat>>]
    ELSE Unfitted

\* OrdinalEncoder.transform on one column: each value becomes its position in
\* categories_[0]; ValueError on a value that is not in it
oe_transform(enc, values) ==
    [r \in DOMAIN values |->
        IF values[r] \in ColSet(enc.categories_[1])
        THEN Value(IndexOf(enc.categories_[1], values[r]))
        ELSE Raise("ValueError")]

\* _BaseEncoder._fit with categories="auto": per column, np.unique of its values
ohe_fit(t, features) ==
    [fitted |-> TRUE,
     categories_ |-> [i \in DOMAIN features |-> np_unique(Column(t, features[i]))]]

\* OneHotEncoder.get_feature_names()
get_feature_names(enc) ==
    Flatten([i \in DOMAIN enc.categories_ |->
                [j \in DOMAIN enc.categories_[i] |->
                    FeatureName(i, enc.categories_[i][j])]])

\* the row of t can be encoded: every value is in its column's categories_
\* (handle_unknown="error": ValueError otherwise)
\* (mutant) handle_unknown="ignore": every row can be encoded
ohe_known_ignore(enc, row, features) == TRUE

ohe_known(enc, row, features) ==
    \A i \in DOMAIN features : row[features[i]] \in ColSet(enc.categories_[i])

\* OneHotEncoder.transform(t[features]).toarray(): per row and feature, a block
\* with one entry per category, 1 at the category of the row's value, 0 elsewhere
\* (mutant) a 1 at the category of the row's value and at every category before it
ohe_row_cumulative(enc, row, features) ==
    Flatten([i \in DOMAIN features |->
                [j \in DOMAIN enc.categories_[i] |->
                    IF j <= IndexOf(enc.categories_[i], row[features[i]]) + 1
                    THEN 1 ELSE 0]])

ohe_row(enc, row, features) ==
    Flatten([i \in DOMAIN features |->
                [j \in DOMAIN enc.categories_[i] |->
                    IF enc.categories_[i][j] = row[features[i]] THEN 1 ELSE 0]])

\* the encoder after enc.transform(t[features]): transform reads categories_
\* and writes nothing
\* (mutant) fit_transform where transform was meant: the encoder is refitted on t
transform_refits(enc, t, features) == ohe_fit(t, features)

transform_leaves(enc, t, features) == enc


ohe_transform(enc, t, features) ==
    [r \in DOMAIN t.rows |-> ohe_row(enc, t.rows[r], features)]

\* pd.DataFrame(array, columns=names)
DataFrame(array, names) ==
    [columns |-> names,
     rows    |-> [r \in DOMAIN array |->
                    [k \in ColSet(names) |->
                        array[r][CHOOSE j \in DOMAIN names : names[j] = k]]]]

-----------------------------------------------------------------------------
(* The two input files.                                                    *)

\* the header of the training file
csv_columns ==
    << "month", "town", "flat_type", "block", "street_name", "storey_range",
       "floor_area_sqm", "flat_model", "lease_commence_date", "remaining_lease",
       "resale_price" >>

RECURSIVE Join(_, _)
\* sep.join(parts)
Join(parts, sep) ==
    IF parts = <<>> THEN <<>>
    ELSE IF Len(parts) = 1 THEN parts[1]
    ELSE parts[1] \o sep \o Join(Tail(parts), sep)

\* numerals and words the texts are made of, each numeral with the integer it writes
N61   == [text |-> <<"6", "1">>, value |-> 61]
N04   == [text |-> <<"0", "4">>, value |-> 4]
N2017 == [text |-> <<"2", "0", "1", "7">>, value |-> 2017]
N03   == [text |-> <<"0", "3">>, value |-> 3]
N3    == [text |-> <<"3">>, value |-> 3]
N13   == [text |-> <<"1", "3">>, value |-> 13]
Wyears  == <<"y", "e", "a", "r", "s">>
Wmonths == <<"m", "o", "n", "t", "h", "s">>
Wab     == <<"a", "b">>
SP == <<" ">>
DASH == <<"-">>

\* "<N> years" and "<N> years <M> months"
LeaseYears(n) == Join(<<n.text, Wyears>>, SP)
LeaseYearsMonths(n, m) == Join(<<n.text, Wyears, m.text, Wmonths>>, SP)

\* "YYYY-MM"
YearMonth(y, m) == Join(<<y.text, m.text>>, DASH)

\* one row of the training file
RawRow(month, town, flat_type, storey_range, flat_model, remaining_lease) ==
    [c \in ColSet(csv_columns) |->
        CASE c = "month"               -> month
          [] c = "town"                -> town
          [] c = "flat_type"           -> flat_type
          [] c = "block"               -> "123"
          [] c = "street_name"         -> "YISHUN AVE 1"
          [] c = "storey_range"        -> storey_range
          [] c = "floor_area_sqm"      -> 93
          [] c = "flat_model"          -> flat_model
          [] c = "lease_commence_date" -> 1988
          [] c = "remaining_lease"     -> remaining_lease
          [] c = "resale_price"        -> 400000]

\* one file data/myflat.csv: a header and one row, the values taken from a
\* training-style row plus a value for any further column
MyflatFile(columns, row) ==
    [columns |-> columns,
     row     |-> [c \in ColSet(columns) |->
                    IF c \in ColSet(csv_columns) THEN row[c] ELSE 0]]

StdMonth == YearMonth(N2017, N03)
StdLease == LeaseYearsMonths(N61, N04)
StdRowA == RawRow(StdMonth, "ANG MO KIO", "3 ROOM", "01 TO 03", "Improved", StdLease)
StdRowB == RawRow(StdMonth, "YISHUN", "4 ROOM", "10 TO 12", "Model A", StdLease)

\* the training header without the label, the header expected of myflat.csv
StdHeader == SelectSeq(csv_columns, LAMBDA c : c # "resale_price")

(* Inputs of the whole-pipeline specification. *)

TrainRows ==
    { RawRow(StdMonth, c[1], c[2], s, c[3], StdLease) :
        c \in { <<"ANG MO KIO", "3 ROOM", "Improved">>,
                <<"YISHUN", "4 ROOM", "Model A">>,
                <<"YISHUN", "3 ROOM", "Improved">> },
        s \in {"01 TO 03", "10 TO 12"} }
    \cup
    { RawRow(YearMonth(N2017, N13), "YISHUN", "4 ROOM", "10 TO 12", "Model A", StdLease),
      RawRow(StdMonth, "YISHUN", "4 ROOM", "10 TO 12", "Model A", LeaseYears(N61)),
      RawRow(StdMonth, "YISHUN", "4 ROOM", "10 TO 12", "Model A", N61.text),
      RawRow(StdMonth, "YISHUN", "4 ROOM", "10 TO 12", "Model A", Wyears),
      RawRow(StdMonth, "YISHUN", "4 ROOM", "52 TO 54", "Model A", StdLease) }

Corpora == UNION { [1..n -> TrainRows] : n \in 1..MaxRows }

Reverse(q) == [i \in 1..Len(q) |-> q[Len(q) + 1 - i]]

MyflatHeaders ==
    { StdHeader,
      Reverse(StdHeader),
      SelectSeq(StdHeader, LAMBDA c : c # "floor_area_sqm"),
      Append(StdHeader, "resale_price"),
      Append(SelectSeq(StdHeader, LAMBDA c : c # "floor_area_sqm"), "_id"),
      SelectSeq(StdHeader, LAMBDA c : c # "block"),
      SelectSeq(StdHeader, LAMBDA c : c # "month"),
      <<"storey">> \o StdHeader,
      Append(StdHeader, "x0_YISHUN") }

MyflatRows ==
    { RawRow(StdMonth, c[1], c[2], "01 TO 03", c[3], StdLease) :
        c \in { <<"YISHUN", "4 ROOM", "Model A">>,
                <<"ANG MO KIO", "3 ROOM", "Improved">>,
                <<"BEDOK", "4 ROOM", "Model A">>,
                <<"YISHUN", "5 ROOM", "Model A">>,
                <<"YISHUN", "4 ROOM", "New Generation">> } }
    \cup
    { RawRow(StdMonth, "YISHUN", "4 ROOM", s, "Model A", StdLease) :
        s \in {"10 TO 12", "49 TO 51", "52 TO 54"} }
    \cup
    { RawRow(m, "YISHUN", "4 ROOM", "01 TO 03", "Model A", StdLease) :
        m \in { YearMonth(N2017, N13), Join(<<N2017.text, Wab>>, DASH), Wab } }
    \cup
    { RawRow(StdMonth, "YISHUN", "4 ROOM", "01 TO 03", "Model A", l) :
        l \in { LeaseYears(N61), N61.text } }

MyflatFiles ==
    { MyflatFile(h, StdRowB) : h \in MyflatHeaders }
    \cup { MyflatFile(StdHeader, r) : r \in MyflatRows }

-----------------------------------------------------------------------------
(* The run.                                                                *)

NoError == [exc |-> "", at |-> ""]
Exc(exc, at) == [exc |-> exc, at |-> at]

NoModel == [fitted |-> FALSE, columns |-> <<>>, predict_calls |-> <<>>]
NoSplit == [columns |-> <<>>, index |-> {}]

Init ==
    /\ csv = <<>>
    /\ myflat_csv = [columns |-> <<>>, row |-> <<>>]
    /\ pc = "cell9"
    /\ err = NoError
    /\ df = NoTable
    /\ oe = Unfitted
    /\ ohe = Unfitted
    /\ X_train = NoSplit
    /\ X_test = NoSplit
    /\ lr = NoModel
    /\ myflat = NoTable

\* (mutant) the exception is recorded and the cell is run again
Halt_retry(e) ==
    /\ pc' = pc
    /\ err' = e

\* a cell raised: the run stops there
Halt(e) ==
    /\ pc' = "error"
    /\ err' = e

Goto(cell) ==
    /\ pc' = cell
    /\ err' = err

\* cell 9: df = pd.read_csv("data/resale-flat-prices-...csv")
Cell9(files) ==
    /\ pc = "cell9"
    /\ \E rows \in files :
        /\ csv' = rows
        /\ df' = [columns |-> csv_columns, rows |-> rows]
    /\ Goto("cell15")
    /\ UNCHANGED <<myflat_csv, oe, ohe, X_train, X_test, lr, myflat>>

\* cell 15: sale_date, sale_year, sale_month from month; drop sale_date and month
Cell15 ==
    /\ pc = "cell15"
    /\ LET dates == apply(Column(df, "month"), to_datetime)
           df1 == setitem(df, "sale_date", dates)
           df2 == setitem(df1, "sale_year", [r \in DOMAIN dates |-> dates[r].year])
           df3 == setitem(df2, "sale_month", [r \in DOMAIN dates |-> dates[r].month])
       IN  IF ~AllOk(dates)
           THEN /\ Halt(Exc(FirstRaised(dates), "to_datetime"))
                /\ df' = df
           ELSE /\ Goto("cell17")
                /\ df' = drop(df3, {"sale_date", "month"})
    /\ UNCHANGED <<csv, myflat_csv, oe, ohe, X_train, X_test, lr, myflat>>

\* cell 17: years_remaining, months_remaining from remaining_lease; drop
\* remaining_lease and lease_commence_date
Cell17 ==
    /\ pc = "cell17"
    /\ LET years == apply(Column(df, "remaining_lease"), years_remaining)
           df1 == setitem(df, "years_remaining", Vals(years))
           months == apply(Column(df1, "remaining_lease"), months_remaining)
           df2 == setitem(df1, "months_remaining", Vals(months))
       IN  IF ~AllOk(years)
           THEN /\ Halt(Exc(FirstRaised(years), "apply"))
                /\ df' = df
           ELSE IF ~AllOk(months)
           THEN /\ Halt(Exc(FirstRaised(months), "apply"))
                /\ df' = df1
           ELSE /\ Goto("cell19")
                /\ df' = drop(df2, {"remaining_lease", "lease_commence_date"})
    /\ UNCHANGED <<csv, myflat_csv, oe, ohe, X_train, X_test, lr, myflat>>

\* cell 19: oe = OrdinalEncoder(categories=[storey_cat], dtype=int);
\* df["storey"] = oe.fit_transform(df[["storey_range"]])
Cell19 ==
    /\ pc = "cell19"
    /\ LET enc == oe_fit(Column(df, "storey_range"))
       IN  /\ oe' = enc
           /\ IF ~enc.fitted
              THEN /\ Halt(Exc("ValueError", "oe.fit_transform"))
                   /\ df' = df
              ELSE /\ Goto("cell21")
                   /\ df' = setitem(df, "storey",
                                    Vals(oe_transform(enc, Column(df, "storey_range"))))
    /\ UNCHANGED <<csv, myflat_csv, ohe, X_train, X_test, lr, myflat>>

\* cell 21: ohe = OneHotEncoder(dtype=int); fit_transform on df[ohe_features];
\* the indicator table, named by get_feature_names(), is joined to df
Cell21 ==
    /\ pc = "cell21"
    /\ LET enc == ohe_fit(df, ohe_features)
           flat_type_encoding == ohe_transform(enc, df, ohe_features)
           flat_type_encoding_df == DataFrame(flat_type_encoding, get_feature_names(enc))
       IN  /\ ohe' = enc
           /\ IF ~CanJoin(df, flat_type_encoding_df)
              THEN /\ Halt(Exc("ValueError", "join"))
                   /\ df' = df
              ELSE /\ Goto("cell37")
                   /\ df' = join(df, flat_type_encoding_df)
    /\ UNCHANGED <<csv, myflat_csv, oe, X_train, X_test, lr, myflat>>

\* cell 37: drop the encoded and the unused source columns
Cell37 ==
    /\ pc = "cell37"
    /\ LET labels == {"town", "flat_type", "flat_model", "storey_range", "block",
                      "street_name"}
       IN  IF ~CanDrop(df, labels)
           THEN /\ Halt(Exc("KeyError", "drop"))
                /\ df' = df
           ELSE /\ Goto("cell38")
                /\ df' = drop(df, labels)
    /\ UNCHANGED <<csv, myflat_csv, oe, ohe, X_train, X_test, lr, myflat>>

\* cell 38: train_test_split(df.drop('resale_price', axis=1), df['resale_price'],
\* test_size=0.25): ceil(0.25 n) rows picked at random are held out; ValueError
\* when no row is left to train on
Cell38 ==
    /\ pc = "cell38"
    /\ LET n == Len(df.rows)
           n_test == (n + 3) \div 4
           n_train == n - n_test
           columns == drop(df, {"resale_price"}).columns
       IN  IF n_train = 0
           THEN /\ Halt(Exc("ValueError", "train_test_split"))
                /\ UNCHANGED <<X_train, X_test>>
           ELSE /\ Goto("cell39")
                /\ \E test \in SUBSET (1..n) :
                    /\ Cardinality(test) = n_test
                    /\ X_test' = [columns |-> columns, index |-> test]
                    /\ X_train' = [columns |-> columns, index |-> (1..n) \ test]
    /\ UNCHANGED <<csv, myflat_csv, df, oe, ohe, lr, myflat>>

\* cell 39: lr = LinearRegression(); lr.fit(X_train, y_train); lr.score(X_test, y_test)
Cell39 ==
    /\ pc = "cell39"
    /\ lr' = [fitted |-> TRUE, columns |-> X_train.columns,
              predict_calls |-> <<[X |-> "X_test", columns |-> X_test.columns]>>]
    /\ Goto("cell40")
    /\ UNCHANGED <<csv, myflat_csv, df, oe, ohe, X_train, X_test, myflat>>

\* cell 40: mean_squared_error(y_test, lr.predict(X_test))
Cell40 ==
    /\ pc = "cell40"
    /\ lr' = [lr EXCEPT !.predict_calls =
                            Append(@, [X |-> "X_test", columns |-> X_test.columns])]
    /\ Goto("cell42")
    /\ UNCHANGED <<csv, myflat_csv, df, oe, ohe, X_train, X_test, myflat>>

\* cell 42: myflat = pd.read_csv("data/myflat.csv", header=0)
Cell42(files) ==
    /\ pc = "cell42"
    /\ \E f \in files :
        /\ myflat_csv' = f
        /\ myflat' = [columns |-> f.columns, rows |-> <<f.row>>]
    /\ Goto("cell43")
    /\ UNCHANGED <<csv, df, oe, ohe, X_train, X_test, lr>>

\* cell 43: sale_year and sale_month from month; drop month;
\* myflat['storey'] = oe.transform(myflat[["storey_range"]])
Cell43 ==
    /\ pc = "cell43"
    /\ IF "month" \notin ColSet(myflat.columns)
       THEN /\ Halt(Exc("KeyError", "myflat['month']"))
            /\ myflat' = myflat
       ELSE
       LET years == apply(Column(myflat, "month"), sale_year)
           m1 == setitem(myflat, "sale_year", Vals(years))
           months == apply(Column(m1, "month"), sale_month)
           m2 == setitem(m1, "sale_month", Vals(months))
           m3 == drop(m2, {"month"})
           storey == oe_transform(oe, Column(m3, "storey_range"))
       IN  IF ~AllOk(years)
           THEN /\ Halt(Exc(FirstRaised(years), "apply"))
                /\ myflat' = myflat
           ELSE IF ~AllOk(months)
           THEN /\ Halt(Exc(FirstRaised(months), "apply"))
                /\ myflat' = m1
           ELSE IF ~AllOk(storey)
           THEN /\ Halt(Exc(FirstRaised(storey), "oe.transform"))
                /\ myflat' = m3
           ELSE /\ Goto("cell44")
                /\ myflat' = setitem(m3, "storey", Vals(storey))
    /\ UNCHANGED <<csv, myflat_csv, df, oe, ohe, X_train, X_test, lr>>

\* cell 44: ohe.transform(myflat[ohe_features]), joined to myflat under the
\* names of get_feature_names(); then years_remaining and months_remaining
Cell44 ==
    /\ pc = "cell44"
    /\ ohe' = transform_leaves(ohe, myflat, ohe_features)
    /\ IF \E r \in DOMAIN myflat.rows : ~ohe_known(ohe, myflat.rows[r], ohe_features)
       THEN /\ Halt(Exc("ValueError", "ohe.transform"))
            /\ myflat' = myflat
       ELSE
       LET myflat_encoding == ohe_transform(ohe, myflat, ohe_features)
           myflat_encoding_df == DataFrame(myflat_encoding, get_feature_names(ohe))
           m1 == join(myflat, myflat_encoding_df)
           years == apply(Column(m1, "remaining_lease"), years_remaining)
           m2 == setitem(m1, "years_remaining", Vals(years))
           months == apply(Column(m2, "remaining_lease"), months_remaining)
       IN  IF ~CanJoin(myflat, myflat_encoding_df)
           THEN /\ Halt(Exc("ValueError", "join"))
                /\ myflat' = myflat
           ELSE IF ~AllOk(years)
           THEN /\ Halt(Exc(FirstRaised(years), "apply"))
                /\ myflat' = m1
           ELSE IF ~AllOk(months)
           THEN /\ Halt(Exc(FirstRaised(months), "apply"))
                /\ myflat' = m2
           ELSE /\ Goto("cell45")
                /\ myflat' = setitem(m2, "months_remaining", Vals(months))
    /\ UNCHANGED <<csv, myflat_csv, df, oe, X_train, X_test, lr>>

\* cell 45: drop the source columns of myflat
Cell45 ==
    /\ pc = "cell45"
    /\ LET labels == {"remaining_lease", "lease_commence_date", "town", "flat_type",
                      "flat_model", "storey_range", "block", "street_name"}
       IN  IF ~CanDrop(myflat, labels)
           THEN /\ Halt(Exc("KeyError", "drop"))
                /\ myflat' = myflat
           ELSE /\ Goto("cell46")
                /\ myflat' = drop(myflat, labels)
    /\ UNCHANGED <<csv, myflat_csv, df, oe, ohe, X_train, X_test, lr>>

\* (mutant) cell 46 without its assert
Cell46_unchecked ==
    /\ pc = "cell46"
    /\ Goto("cell47")
    /\ UNCHANGED <<csv, myflat_csv, df, oe, ohe, X_train, X_test, lr, myflat>>

\* cell 46: assert len(df.columns) == len(myflat.columns) + 1
Cell46 ==
    /\ pc = "cell46"
    /\ IF Len(df.columns) # Len(myflat.columns) + 1
       THEN Halt(Exc("AssertionError", "assert"))
       ELSE Goto("cell47")
    /\ UNCHANGED <<csv, myflat_csv, df, oe, ohe, X_train, X_test, lr, myflat>>

\* cell 47: myflat = myflat[X_train.columns]; lr.predict(myflat)
Cell47 ==
    /\ pc = "cell47"
    /\ IF ~CanSelect(myflat, X_train.columns)
       THEN /\ Halt(Exc("KeyError", "myflat[X_train.columns]"))
            /\ UNCHANGED <<myflat, lr>>
       ELSE /\ Goto("done")
            /\ myflat' = getitem(myflat, X_train.columns)
            /\ lr' = [lr EXCEPT !.predict_calls =
                                    Append(@, [X |-> "myflat", columns |-> myflat'.columns])]
    /\ UNCHANGED <<csv, myflat_csv, df, oe, ohe, X_train, X_test>>

\* the cells between the two reads
Cells ==
    \/ Cell15 \/ Cell17 \/ Cell19 \/ Cell21 \/ Cell37 \/ Cell38 \/ Cell39 \/ Cell40
    \/ Cell43 \/ Cell44 \/ Cell45 \/ Cell46 \/ Cell47

Next == Cell9(Corpora) \/ Cell42(MyflatFiles) \/ Cells

Spec == Init /\ [][Next]_vars

-----------------------------------------------------------------------------
(* The same run on inputs that vary one field at a time.                   *)

StdCorpus == <<StdRowA, StdRowB>>
StdFile == MyflatFile(StdHeader, StdRowB)

\* row with the value of column c replaced
WithField(row, c, v) == [row EXCEPT ![c] = v]

(* remaining_lease texts: up to MaxTokens tokens, spaced in five ways *)

LeaseTokens == {N61.text, N04.text, Wyears, Wmonths}

Spacings ==
    { [lead |-> <<>>, sep |-> SP,           trail |-> <<>>],
      [lead |-> <<>>, sep |-> <<" ", " ">>, trail |-> <<>>],
      [lead |-> <<>>, sep |-> <<"\t">>,     trail |-> <<>>],
      [lead |-> SP,   sep |-> SP,           trail |-> <<>>],
      [lead |-> <<>>, sep |-> SP,           trail |-> SP] }

LeaseTexts ==
    { sp.lead \o Join(ts, sp.sep) \o sp.trail :
        ts \in UNION { [1..n -> LeaseTokens] : n \in 0..MaxTokens },
        sp \in Spacings }

LeaseCorpora ==
    { <<WithField(StdRowA, "remaining_lease", t), StdRowB>> : t \in LeaseTexts }

\* the prediction file varies while the training file is the standard one
LeaseFiles ==
    IF csv = StdCorpus
    THEN { MyflatFile(StdHeader, WithField(StdRowB, "remaining_lease", t)) :
             t \in LeaseTexts }
    ELSE {StdFile}

LeaseNext == Cell9(LeaseCorpora) \/ Cell42(LeaseFiles) \/ Cells

LeaseSpec == Init /\ [][LeaseNext]_vars

(* month texts: up to MaxParts parts joined by "-" *)

DateParts == {N2017.text, N03.text, N3.text, N13.text, Wab}

DateTexts ==
    { Join(ps, DASH) : ps \in UNION { [1..n -> DateParts] : n \in 0..MaxParts } }

DateCorpora == { <<WithField(StdRowA, "month", t), StdRowB>> : t \in DateTexts }

DateFiles == { MyflatFile(StdHeader, WithField(StdRowB, "month", t)) : t \in DateTexts }

DateNext == Cell9(DateCorpora) \/ Cell42(DateFiles) \/ Cells

DateSpec == Init /\ [][DateNext]_vars

(* storey_range values: the 17 listed labels and two that are not listed *)

StoreyValues == ColSet(storey_cat) \cup {"52 TO 54", "1 TO 3"}

StoreyCorpora ==
    { <<WithField(StdRowA, "storey_range", a), WithField(StdRowB, "storey_range", b)>> :
        a \in StoreyValues, b \in {"01 TO 03", "10 TO 12", "49 TO 51"} }

StoreyFiles ==
    { MyflatFile(StdHeader, WithField(StdRowB, "storey_range", s)) : s \in StoreyValues }

StoreyNext == Cell9(StoreyCorpora) \/ Cell42(StoreyFiles) \/ Cells

StoreySpec == Init /\ [][StoreyNext]_vars

-----------------------------------------------------------------------------
(* Vocabulary of the properties.                                           *)

\* the exceptions of the run, by the error each stands for
IsParseError(e) == e.at \in {"to_datetime", "apply"}
IsUnknownCategoryError(e) == e.at \in {"oe.fit_transform", "oe.transform", "ohe.transform"}
IsSchemaMismatchError(e) ==
    e.at \in {"drop", "assert", "join", "myflat['month']", "myflat[X_train.columns]"}

\* the training table's columns without the label
CanonicalColumns == SelectSeq(df.columns, LAMBDA c : c # "resale_price")

\* the tables handed to lr.predict for the single record
MyflatCalls ==
    { i \in DOMAIN lr.predict_calls : lr.predict_calls[i].X = "myflat" }

\* the training table is complete (cell 37 has run)
TrainingBuilt ==
    pc \in {"cell38", "cell39", "cell40", "cell42", "cell43", "cell44", "cell45",
            "cell46", "cell47", "done"}
    \/ (pc = "error" /\ lr.fitted)
    \/ (pc = "error" /\ err.at = "train_test_split")

\* myflat.csv has been read
MyflatRead == myflat_csv.columns # <<>>

\* the values the training file holds in one column
Vocabulary(c) == { csv[r][c] : r \in DOMAIN csv }

\* the indicator columns of one-hot source column i, named from the training file
Indicators(i) == { FeatureName(i, v) : v \in Vocabulary(ohe_features[i]) }

AllIndicators == UNION { Indicators(i) : i \in DOMAIN ohe_features }

\* every indicator name of the model
IndicatorNames ==
    { FeatureName(1, v) : v \in {"ANG MO KIO", "BEDOK", "YISHUN"} }
    \cup { FeatureName(2, v) : v \in {"3 ROOM", "4 ROOM", "5 ROOM"} }
    \cup { FeatureName(3, v) : v \in {"Improved", "Model A", "New Generation"} }

-----------------------------------------------------------------------------
(* C1: every table handed to lr.predict for the single record has the      *)
(* training table's columns without resale_price: the same names, in the   *)
(* same order, and as many, whatever the order in which myflat.csv listed  *)
(* its columns and cells 43-44 added theirs.                               *)
C1_PredictRowHasTrainingColumns ==
    \A i \in MyflatCalls :
        /\ lr.predict_calls[i].columns = CanonicalColumns
        /\ Len(lr.predict_calls[i].columns) = Len(df.columns) - 1
        /\ lr.predict_calls[i].columns = myflat.columns

\* a prediction was made for a file whose columns came in another order
C1_Witness ==
    /\ pc = "done"
    /\ MyflatCalls # {}
    /\ myflat_csv.columns = Reverse(StdHeader)

-----------------------------------------------------------------------------
(* C2: once the prediction row is assembled (cell 45 has run), a row whose *)
(* column set is not the canonical one never reaches lr.predict: the count *)
(* check of cell 46 or the selection of cell 47 stops the run with a       *)
(* schema mismatch, and lr is asked nothing.                               *)
AssembledMismatch ==
    /\ pc \in {"cell46", "cell47"}
    /\ ColSet(myflat.columns) # ColSet(CanonicalColumns)

C2_MismatchNeverPredicted ==
    [][AssembledMismatch =>
         /\ lr' = lr
         /\ \/ pc' = "error" /\ IsSchemaMismatchError(err')
            \/ pc = "cell46" /\ pc' = "cell47" /\ myflat' = myflat]_vars

\* a row with as many columns as the canonical set but not the same ones
\* passed the count check and was stopped by the selection
C2_Witness ==
    /\ pc = "error"
    /\ err = Exc("KeyError", "myflat[X_train.columns]")
    /\ Len(myflat.columns) = Len(CanonicalColumns)

-----------------------------------------------------------------------------
(* C3: a prediction record with a town, flat_type, flat_model or           *)
(* storey_range that the fitted encoders do not know is never encoded and  *)
(* never predicted: the encoder's transform raises, the run stops with an  *)
(* unknown-category error, and myflat gets no storey rank (unknown         *)
(* storey_range) and no indicator column (unknown one-hot value).          *)
\* the columns of table t that its file did not have
Added(t, columns) == ColSet(t.columns) \ ColSet(columns)

UnknownStorey ==
    /\ MyflatRead
    /\ "storey_range" \in ColSet(myflat_csv.columns)
    /\ myflat_csv.row["storey_range"] \notin ColSet(storey_cat)

UnknownOneHot ==
    /\ MyflatRead
    /\ \E i \in DOMAIN ohe_features :
        myflat_csv.row[ohe_features[i]] \notin Vocabulary(ohe_features[i])

C3_UnknownCategoryRejected ==
    (UnknownStorey \/ UnknownOneHot) =>
        /\ pc \notin {"cell45", "cell46", "cell47", "done"}
        /\ MyflatCalls = {}
        /\ UnknownStorey => pc # "cell44" /\ "storey" \notin Added(myflat, myflat_csv.columns)
        /\ UnknownOneHot => Added(myflat, myflat_csv.columns) \cap IndicatorNames = {}
        \* the month was parsed, so the encoders were reached
        /\ (pc = "error" /\ "sale_month" \in ColSet(myflat.columns))
              => IsUnknownCategoryError(err)

\* the one-hot encoder refused a record whose storey_range it could rank
C3_Witness ==
    /\ UnknownOneHot
    /\ ~UnknownStorey
    /\ pc = "error"
    /\ err = Exc("ValueError", "ohe.transform")

-----------------------------------------------------------------------------
(* C4: in every training row and in the prediction row, the indicator      *)
(* columns of each one-hot source column are the k columns named after the *)
(* k values the training file holds in it, and exactly one of them is 1:   *)
(* the one named after the row's own value.                                *)
OneHotRow(encoded, raw) ==
    \A i \in DOMAIN ohe_features :
        /\ \A v \in Vocabulary(ohe_features[i]) :
              encoded[FeatureName(i, v)] = (IF raw[ohe_features[i]] = v THEN 1 ELSE 0)
        /\ Cardinality({ c \in Indicators(i) : encoded[c] = 1 }) = 1
        /\ Cardinality({ c \in Indicators(i) : encoded[c] = 0 })
              = Cardinality(Vocabulary(ohe_features[i])) - 1

\* indicator columns have been joined to table t, read from a file with the
\* given header
Encoded(t, columns) == Added(t, columns) \cap IndicatorNames # {}

C4_ExactlyOneIndicator ==
    /\ Encoded(df, csv_columns) =>
          /\ Added(df, csv_columns) \cap IndicatorNames = AllIndicators
          /\ \A r \in DOMAIN df.rows : OneHotRow(df.rows[r], csv[r])
    /\ Encoded(myflat, myflat_csv.columns) =>
          /\ Added(myflat, myflat_csv.columns) \cap IndicatorNames = AllIndicators
          /\ \A r \in DOMAIN myflat.rows : OneHotRow(myflat.rows[r], myflat_csv.row)

\* a prediction row and two training rows encoded over vocabularies of size 2
C4_Witness ==
    /\ pc = "done"
    /\ Encoded(myflat, myflat_csv.columns)
    /\ Len(df.rows) = 2
    /\ \A i \in DOMAIN ohe_features : Cardinality(Vocabulary(ohe_features[i])) = 2

-----------------------------------------------------------------------------
(* C5: the ordinal encoder ranks the 17 listed storey labels 0..16 by      *)
(* their place in the list, whatever labels the training file holds: the   *)
(* fitted list is the listed one, the ranking is defined on all 17 labels, *)
(* strictly increasing along the list and onto 0..16, every encoded row    *)
(* carries the rank of its own label, and a label outside the list stops   *)
(* the run with an unknown-category error, at fit time and at prediction   *)
(* time alike.                                                             *)
Rank(v) == oe_transform(oe, <<v>>)[1]

RankOf(label) == (CHOOSE i \in DOMAIN storey_cat : storey_cat[i] = label) - 1

TrainUnknownStorey ==
    \E r \in DOMAIN csv : csv[r]["storey_range"] \notin ColSet(storey_cat)

C5_OrdinalIsListPosition ==
    /\ oe.fitted =>
          /\ oe.categories_ = <<storey_cat>>
          /\ Len(storey_cat) = 17
          /\ \A i \in 1..17 : Rank(storey_cat[i]).ok /\ Rank(storey_cat[i]).val = i - 1
          /\ \A i, j \in 1..17 :
                i < j => Rank(storey_cat[i]).val < Rank(storey_cat[j]).val
          /\ { Rank(storey_cat[i]).val : i \in 1..17 } = 0..16
          /\ \A v \in StoreyValues \ ColSet(storey_cat) : ~Rank(v).ok
    /\ "storey" \in ColSet(df.columns) =>
          \A r \in DOMAIN df.rows :
              /\ csv[r]["storey_range"] \in ColSet(storey_cat)
              /\ df.rows[r]["storey"] = RankOf(csv[r]["storey_range"])
    /\ "storey" \in ColSet(myflat.columns) =>
          \A r \in DOMAIN myflat.rows :
              /\ myflat_csv.row["storey_range"] \in ColSet(storey_cat)
              /\ myflat.rows[r]["storey"] = RankOf(myflat_csv.row["storey_range"])
    /\ (TrainUnknownStorey /\ pc \notin {"cell9", "cell15", "cell17", "cell19"}) =>
          /\ pc = "error"
          /\ ~oe.fitted
          /\ "months_remaining" \in ColSet(df.columns) =>
                err = Exc("ValueError", "oe.fit_transform")
    /\ (UnknownStorey /\ pc # "cell43") =>
          /\ pc = "error"
          /\ "sale_month" \in ColSet(myflat.columns) =>
                err = Exc("ValueError", "oe.transform")

\* the top label was ranked 16 for a prediction row, by an encoder fitted on
\* a training file that does not hold that label
C5_Witness ==
    /\ pc = "done"
    /\ myflat_csv.row["storey_range"] = "49 TO 51"
    /\ myflat.rows[1]["storey"] = 16
    /\ \A r \in DOMAIN csv : csv[r]["storey_range"] # "49 TO 51"

-----------------------------------------------------------------------------
(* Parsed texts, on both paths.                                            *)

Numerals == {N61, N04}

\* cell 17 has run its two lambdas on the training rows without raising
TrainLeaseParsed == "months_remaining" \in ColSet(df.columns)

\* cell 17 has run, whether it raised or not
TrainLeaseTried == "sale_year" \in ColSet(df.columns) /\ pc # "cell17"

\* cell 44 has run its two lambdas on the prediction row without raising
MyflatLeaseParsed == "months_remaining" \in Added(myflat, myflat_csv.columns)

\* cell 44 has come to its lambdas, whether they raised or not
MyflatLeaseTried == Encoded(myflat, myflat_csv.columns) /\ pc # "cell44"

-----------------------------------------------------------------------------
(* C6 (as claimed): a text "<N> years <M> months" is parsed to             *)
(* years_remaining = N, months_remaining = M, and a text "<N> years" to    *)
(* years_remaining = N, months_remaining = 0, on the training rows and on  *)
(* the prediction row.                                                     *)
LeaseParsedAsWritten(text, row) ==
    \A n \in Numerals :
        /\ text = LeaseYears(n) =>
              row["years_remaining"] = n.value /\ row["months_remaining"] = 0
        /\ \A m \in Numerals :
              text = LeaseYearsMonths(n, m) =>
                  row["years_remaining"] = n.value /\ row["months_remaining"] = m.value

C6_LeaseYearsAndMonths ==
    /\ TrainLeaseParsed =>
          \A r \in DOMAIN df.rows :
              LeaseParsedAsWritten(csv[r]["remaining_lease"], df.rows[r])
    /\ MyflatLeaseParsed =>
          LeaseParsedAsWritten(myflat_csv.row["remaining_lease"], myflat.rows[1])

-----------------------------------------------------------------------------
(* C7 (as claimed): a valid "YYYY-MM" text is parsed to its two integers,  *)
(* the month in 1..12, and the prediction path follows the training path:  *)
(* whatever text cell 43 accepts, pd.to_datetime(format="%Y-%m") accepts   *)
(* with the same pair, and a text that is not two numeric parts around one *)
(* "-" is rejected with a parse error on both paths.                       *)
YearParts == {N2017}
MonthParts == {N03}
NumericParts == {N2017.text, N03.text, N3.text, N13.text}

TwoNumericParts(text) ==
    \E a, b \in NumericParts : text = Join(<<a, b>>, DASH)

DateParsedAsWritten(text, row) ==
    /\ \A y \in YearParts, m \in MonthParts :
          text = YearMonth(y, m) =>
              row["sale_year"] = y.value /\ row["sale_month"] = m.value
    /\ row["sale_month"] \in 1..12
    /\ TwoNumericParts(text)

C7_SameDateRulesOnBothPaths ==
    /\ "sale_month" \in ColSet(df.columns) =>
          \A r \in DOMAIN df.rows : DateParsedAsWritten(csv[r]["month"], df.rows[r])
    /\ "sale_month" \in Added(myflat, myflat_csv.columns) =>
          /\ DateParsedAsWritten(myflat_csv.row["month"], myflat.rows[1])
          /\ LET d == to_datetime(myflat_csv.row["month"])
             IN  /\ d.ok
                 /\ myflat.rows[1]["sale_year"] = d.year
                 /\ myflat.rows[1]["sale_month"] = d.month

-----------------------------------------------------------------------------
(* C8: the fitted encoders are written by the training-time fit of cells   *)
(* 19 and 21 and by nothing else: no step changes oe outside cell 19 or    *)
(* ohe outside cell 21, a fitted encoder is never changed, and no step     *)
(* taken after myflat.csv is read (the transforms of cells 43 and 44,      *)
(* failing or not) changes either.                                         *)
C8_FittedStateWrittenOnce ==
    [][/\ oe' # oe => pc = "cell19" /\ ~oe.fitted
       /\ ohe' # ohe => pc = "cell21" /\ ~ohe.fitted
       /\ MyflatRead => oe' = oe /\ ohe' = ohe
       /\ pc' = "cell37" => oe'.fitted /\ ohe'.fitted]_vars

\* a record was transformed and predicted by encoders that a refit on the
\* record would have changed
C8_Witness ==
    /\ pc = "done"
    /\ oe.fitted
    /\ ohe = ohe_fit([columns |-> csv_columns, rows |-> csv], ohe_features)
    /\ ohe # ohe_fit([columns |-> myflat_csv.columns, rows |-> <<myflat_csv.row>>],
                     ohe_features)

-----------------------------------------------------------------------------
(* C9.  What a table holds when a cell raises.                             *)

DateColumns == {"sale_year", "sale_month"}
LeaseColumns == {"years_remaining", "months_remaining"}
DerivedColumns == DateColumns \cup LeaseColumns \cup {"storey"}

\* the source columns the build drops
TrainSources ==
    {"month", "remaining_lease", "lease_commence_date", "town", "flat_type",
     "flat_model", "storey_range", "block", "street_name"}

\* table t, read with the given header, went through every step of its build
Complete(t, columns) ==
    /\ Added(t, columns) = (DerivedColumns \cup AllIndicators) \ ColSet(columns)
    /\ ColSet(t.columns) \cap TrainSources = {}

\* table t is as it was read
Untouched(t, columns) == t.columns = columns

(* C9 (as claimed): a build that raises leaves no partly transformed table *)
(* behind: when the run has stopped on an error, df is either as read or   *)
(* fully built, and so is myflat.                                          *)
C9_AllOrNothing ==
    pc = "error" =>
        /\ Untouched(df, csv_columns) \/ Complete(df, csv_columns)
        /\ \/ ~MyflatRead
           \/ Untouched(myflat, myflat_csv.columns)
           \/ Complete(myflat, myflat_csv.columns)

(* C9 (amended): a cell that raises ends the run there: nothing is retried *)
(* and nothing runs after it, no row is ever skipped, the model is fitted  *)
(* only on a fully built training table and asked to predict only a fully  *)
(* built prediction row.  The tables are changed in place, though: a table *)
(* whose build raised keeps the columns added and loses the columns        *)
(* dropped by the statements that ran before the one that raised.          *)
C9_StopsAtFirstErrorInPlace ==
    /\ err # NoError => pc = "error" /\ ~ENABLED Next
    /\ pc = "error" => err # NoError
    /\ Len(df.rows) = Len(csv)
    /\ MyflatRead => Len(myflat.rows) = 1
    /\ lr.fitted => Complete(df, csv_columns)
    /\ MyflatRead => lr.fitted
    /\ MyflatCalls # {} =>
          pc = "done" /\ err = NoError /\ Complete(myflat, myflat_csv.columns)
    /\ (pc = "error" /\ ~MyflatRead) =>
          /\ myflat = NoTable
          /\ MyflatCalls = {}
          /\ err.at = "to_datetime" => Untouched(df, csv_columns)
          /\ err.at = "apply" =>
                /\ Added(df, csv_columns) \in
                      {DateColumns, DateColumns \cup {"years_remaining"}}
                /\ "month" \notin ColSet(df.columns)
                /\ "remaining_lease" \in ColSet(df.columns)
          /\ err.at = "oe.fit_transform" =>
                /\ Added(df, csv_columns) = DateColumns \cup LeaseColumns
                /\ "remaining_lease" \notin ColSet(df.columns)
          /\ err.at = "train_test_split" => Complete(df, csv_columns) /\ ~lr.fitted
    /\ (pc = "error" /\ MyflatRead) =>
          /\ MyflatCalls = {}
          /\ err.at = "myflat['month']" => Untouched(myflat, myflat_csv.columns)
          /\ err.at = "oe.transform" =>
                /\ Added(myflat, myflat_csv.columns) = DateColumns \ ColSet(myflat_csv.columns)
                /\ "month" \notin ColSet(myflat.columns)
          /\ err.at = "ohe.transform" =>
                Added(myflat, myflat_csv.columns)
                    = (DateColumns \cup {"storey"}) \ ColSet(myflat_csv.columns)

\* cell 17 raised in its second lambda: df has years_remaining, has no
\* months_remaining, and still has remaining_lease
C9_Witness ==
    /\ pc = "error"
    /\ err.at = "apply"
    /\ ~MyflatRead
    /\ Added(df, csv_columns) = DateColumns \cup {"years_remaining"}
    /\ Len(df.rows) = 2

-----------------------------------------------------------------------------
(* C10.  Which remaining_lease texts are rejected.                         *)

IsNumeral(token) == \E n \in Numerals : n.text = token

NumeralValue(token) == (CHOOSE n \in Numerals : n.text = token).value

\* the text is its tokens joined by single spaces, with nothing around them
SingleSpaced(text) == Join(split_ws(text), SP) = text

(* C10 (as claimed): a text with fewer than 2 or more than 4 tokens, or    *)
(* with a year token (the first) or a month token (the third) that is not  *)
(* a number, is rejected with a parse error and yields no years_remaining  *)
(* and months_remaining, on either path.                                   *)
ClaimedRejected(text) ==
    LET ts == split_ws(text)
    IN  \/ Len(ts) < 2
        \/ Len(ts) > 4
        \/ ~IsNumeral(ts[1])
        \/ Len(ts) >= 3 /\ ~IsNumeral(ts[3])

C10_RejectsByTokenCount ==
    /\ (TrainLeaseTried /\ \E r \in DOMAIN csv : ClaimedRejected(csv[r]["remaining_lease"]))
          => ~TrainLeaseParsed /\ pc = "error" /\ IsParseError(err)
    /\ (MyflatLeaseTried /\ ClaimedRejected(myflat_csv.row["remaining_lease"]))
          => ~MyflatLeaseParsed /\ pc = "error" /\ IsParseError(err)

(* C10 (amended): the years are the first whitespace-separated token and   *)
(* the months the second-to-last piece between single spaces; the parse    *)
(* fails with a parse error when either is missing or is not a number, and *)
(* it checks nothing else.  So a text with no token or with a first token  *)
(* that is not a number is always rejected, and a single-spaced text of n  *)
(* tokens is rejected exactly when n < 2 or its first or its (n-1)th token *)
(* is not a number: more than 4 tokens are accepted when the (n-1)th is a  *)
(* number, and the values are then the first and the (n-1)th token.        *)
AlwaysRejected(text) ==
    LET ts == split_ws(text)
    IN  Len(ts) = 0 \/ ~IsNumeral(ts[1])

Accepted(text) ==
    LET ts == split_ws(text)
    IN  /\ Len(ts) >= 2
        /\ IsNumeral(ts[1])
        /\ IsNumeral(ts[Len(ts) - 1])

LeaseOutcome(texts, tried, parsed, rows) ==
    tried =>
        /\ (\E r \in DOMAIN texts : AlwaysRejected(texts[r])) => ~parsed
        /\ (\A r \in DOMAIN texts : SingleSpaced(texts[r])) =>
              (parsed <=> \A r \in DOMAIN texts : Accepted(texts[r]))
        /\ parsed =>
              \A r \in DOMAIN texts :
                  SingleSpaced(texts[r]) =>
                      LET ts == split_ws(texts[r])
                      IN  /\ rows[r]["years_remaining"] = NumeralValue(ts[1])
                          /\ rows[r]["months_remaining"] = NumeralValue(ts[Len(ts) - 1])
        /\ ~parsed => pc = "error" /\ err.at = "apply" /\ IsParseError(err)

C10_RejectsByFirstAndSecondToLast ==
    /\ LeaseOutcome([r \in DOMAIN csv |-> csv[r]["remaining_lease"]],
                    TrainLeaseTried, TrainLeaseParsed, df.rows)
    /\ MyflatRead =>
          LeaseOutcome(<<myflat_csv.row["remaining_lease"]>>,
                       MyflatLeaseTried, MyflatLeaseParsed, myflat.rows)

\* a single-spaced text of five tokens was parsed for the prediction row, and
\* another training run stopped on a text of one token
C10_Witness ==
    /\ MyflatLeaseParsed
    /\ SingleSpaced(myflat_csv.row["remaining_lease"])
    /\ Len(split_ws(myflat_csv.row["remaining_lease"])) = 5
    /\ ~IsNumeral(split_ws(myflat_csv.row["remaining_lease"])[3])

-----------------------------------------------------------------------------
(* C11.  The one-hot encoder's fit does not depend on the order of the     *)
(* training rows.                                                          *)

\* the orders in which n rows can be listed
RowOrders(n) == { p \in [1..n -> 1..n] : \A i, j \in 1..n : p[i] = p[j] => i = j }

\* the training file with its rows listed in order p
Permuted(rows, p) == [r \in DOMAIN rows |-> rows[p[r]]]

\* position of a value in the lexicographic order of the values
LexPosition(v) == CHOOSE k \in DOMAIN LexOrder : LexOrder[k] = v

\* the indicator names of the values the training file holds, source column
\* by source column, the values of one column in lexicographic order
SortedIndicatorNames ==
    Flatten([i \in DOMAIN ohe_features |->
                LET S == SelectSeq(LexOrder,
                                   LAMBDA v : v \in Vocabulary(ohe_features[i]))
                IN  [j \in DOMAIN S |-> FeatureName(i, S[j])]])

\* the feature columns that are not indicators, in the order the cells leave them
NumericFeatures ==
    << "floor_area_sqm", "sale_year", "sale_month", "years_remaining",
       "months_remaining", "storey" >>

(* C11: once the one-hot encoder is fitted, fitting it on the training     *)
(* rows listed in any other order gives the same categories_ per column    *)
(* and the same feature names in the same order; the categories_ of a      *)
(* column are exactly the values the training file holds in it, each once, *)
(* in lexicographic order; and the columns of the finished training table  *)
(* and of X_train are the six numeric features followed by the indicator   *)
(* names so ordered, whatever the order of the rows.                       *)
C11_FitIgnoresRowOrder ==
    /\ ohe.fitted =>
          /\ \A p \in RowOrders(Len(csv)) :
                LET enc == ohe_fit([columns |-> csv_columns, rows |-> Permuted(csv, p)],
                                   ohe_features)
                IN  /\ enc.categories_ = ohe.categories_
                    /\ get_feature_names(enc) = get_feature_names(ohe)
          /\ \A i \in DOMAIN ohe_features :
                LET cats == ohe.categories_[i]
                IN  /\ { cats[j] : j \in DOMAIN cats } = Vocabulary(ohe_features[i])
                    /\ \A j, k \in DOMAIN cats :
                          j < k => LexPosition(cats[j]) < LexPosition(cats[k])
          /\ get_feature_names(ohe) = SortedIndicatorNames
    /\ TrainingBuilt => CanonicalColumns = NumericFeatures \o SortedIndicatorNames
    /\ X_train # NoSplit => X_train.columns = NumericFeatures \o SortedIndicatorNames

\* a run was completed on a training file whose rows list the values of every
\* one-hot column in descending order
C11_Witness ==
    /\ pc = "done"
    /\ Len(csv) = 2
    /\ \A i \in DOMAIN ohe_features :
          LexPosition(csv[1][ohe_features[i]]) > LexPosition(csv[2][ohe_features[i]])
    /\ Len(X_train.columns) = Len(NumericFeatures) + 6

====
